---- MODULE Spec2Model ----
(***************************************************************************)
(* A model of the crt-marshal / crt-marshal-host crates: the primitive     *)
(* encoding of marshal-able values, the bounds-checked accessors over the  *)
(* guest's linear memory, the host-call and guest-call adapters, the       *)
(* allocator bridge and the dynamic-object protocol.                       *)
(*                                                                         *)
(* Representation.  TLC integers are 32-bit signed, so:                    *)
(*  - a 64-bit primitive is the pair <<lo, hi>> of its 32-bit halves;      *)
(*  - a little-endian wrapper (LeU16, LeU32, ...) is the sequence of the   *)
(*    bytes it occupies in memory, least significant first;                *)
(*  - 32-bit values handled by the marshalling operators are true-width    *)
(*    values below 2^31;                                                   *)
(*  - the guest address arithmetic (checked_mul, checked_add, usize        *)
(*    conversions) is done against U32Limit, a scaled stand-in for 2^32.   *)
(* Option<T> is the record None or Some(v); anyhow::Result<T> is Ok(v) or  *)
(* Err(msg), msg being the context string the code attaches.               *)
(***************************************************************************)
EXTENDS Integers, Sequences, FiniteSets, TLC

VARIABLES
    bigEndian,   \* byte order of the host the crates were built for
    mem,         \* the guest's linear memory: wasmtime::Memory data, a byte sequence
    table,       \* the guest's function table: index -> entry
    guestCalls,  \* every guest function invocation made so far, in order
    hostCalls,   \* every invocation of a wrapped native host function, in order
    res          \* the operation last run, its inputs and its result

vars == <<bigEndian, mem, table, guestCalls, hostCalls, res>>

(***************************************************************************)
(* Option and Result                                                       *)
(***************************************************************************)
None == [tag |-> "None"]

Some(v) == [tag |-> "Some", val |-> v]

Ok(v) == [tag |-> "Ok", val |-> v]

Err(msg) == [tag |-> "Err", msg |-> msg]

IsSome(o) == o.tag = "Some"

IsOk(r) == r.tag = "Ok"

(***************************************************************************)
(* Integer domains of the Rust types (core::primitive)                     *)
(***************************************************************************)
U8Max == 255

U16Max == 65535

I8Min == -128

I8Max == 127

I16Min == -32768

I16Max == 32767

\* char::try_from(u32): the Unicode scalar values are 0..=0xD7FF and 0xE000..=0x10FFFF
SurrogateLo == 55296

SurrogateHi == 57343

CharMax == 1114111

ByteBase == 256

(***************************************************************************)
(* Little-endian wrappers: define_le!                                      *)
(***************************************************************************)
RECURSIVE LeBytes(_, _)
\* $name::new for a value that fits one TLC integer: value.to_le(), held as the n
\* bytes it occupies in memory (two's complement for a negative value).
LeBytes(v, n) ==
    IF n = 0 THEN <<>> ELSE <<v % ByteBase>> \o LeBytes(v \div ByteBase, n - 1)

RECURSIVE FromLeBytesU(_)
\* $name::get of an unsigned wrapper: <$ty>::from_le(self.0)
FromLeBytesU(bs) ==
    IF bs = <<>> THEN 0 ELSE Head(bs) + ByteBase * FromLeBytesU(Tail(bs))

RECURSIVE FromLeBytesS(_)
\* $name::get of a signed wrapper: the top byte carries the sign
FromLeBytesS(bs) ==
    IF Len(bs) = 1
    THEN (IF Head(bs) >= 128 THEN Head(bs) - ByteBase ELSE Head(bs))
    ELSE Head(bs) + ByteBase * FromLeBytesS(Tail(bs))

IsLe(ty) == ty \in {"LeI16", "LeU16", "LeI32", "LeU32", "LeI64", "LeU64"}

\* define_le! { LeI16 i16, LeU16 u16, LeI32 i32, LeU32 u32, LeI64 i64, LeU64 u64 }
LeInner(ty) ==
    CASE ty = "LeI16" -> "i16"
      [] ty = "LeU16" -> "u16"
      [] ty = "LeI32" -> "i32"
      [] ty = "LeU32" -> "u32"
      [] ty = "LeI64" -> "i64"
      [] ty = "LeU64" -> "u64"

\* $name::new(value)
LeNew(ty, v) ==
    CASE ty = "LeI16" -> LeBytes(v, 2)
      [] ty = "LeU16" -> LeBytes(v, 2)
      [] ty = "LeI32" -> LeBytes(v, 4)
      [] ty = "LeU32" -> LeBytes(v, 4)
      [] ty \in {"LeI64", "LeU64"} -> LeBytes(v[1], 4) \o LeBytes(v[2], 4)

LeGetUnsigned(ty, bs) ==
    CASE ty \in {"LeI16", "LeU16", "LeI32", "LeU32"} -> FromLeBytesU(bs)
      [] ty \in {"LeI64", "LeU64"} ->
            <<FromLeBytesU(SubSeq(bs, 1, 4)), FromLeBytesU(SubSeq(bs, 5, 8))>>

\* $name::get(self)
LeGet(ty, bs) ==
    CASE ty = "LeI16" -> FromLeBytesS(bs)
      [] ty = "LeU16" -> FromLeBytesU(bs)
      [] ty = "LeI32" -> FromLeBytesS(bs)
      [] ty = "LeU32" -> FromLeBytesU(bs)
      [] ty \in {"LeI64", "LeU64"} ->
            <<FromLeBytesU(SubSeq(bs, 1, 4)), FromLeBytesU(SubSeq(bs, 5, 8))>>

(***************************************************************************)
(* MarshaledTy: into_prim / from_prim                                      *)
(***************************************************************************)
IntTys == {"u8", "u16", "u32", "i8", "i16", "i32", "u64", "i64", "char"}

MarshaledTys ==
    IntTys \cup {"bool", "LeI16", "LeU16", "LeI32", "LeU32", "LeI64", "LeU64",
                 "WasmPtr", "WasmSlice", "WasmStr"}

RECURSIVE PrimOf(_)
\* type Prim
PrimOf(ty) ==
    CASE ty \in {"u8", "u16", "u32", "char", "bool", "WasmPtr"} -> "u32"
      [] ty \in {"i8", "i16", "i32"} -> "i32"
      [] ty \in {"u64", "WasmSlice", "WasmStr"} -> "u64"
      [] ty = "i64" -> "i64"
      [] IsLe(ty) -> PrimOf(LeInner(ty))

\* bytemuck::cast::<WasmSliceRaw, u64>: WasmSliceRaw(a, b) is #[repr(C)], a first in
\* memory; the u64 is read in the host's byte order.
CastRawToU64(a, b) == IF bigEndian THEN <<b, a>> ELSE <<a, b>>

\* bytemuck::cast::<u64, WasmSliceRaw>
CastU64ToRaw(p) == IF bigEndian THEN <<p[2], p[1]>> ELSE <<p[1], p[2]>>

\* impl MarshaledTy for bool: me as u32
IntoPrimBool(me) == IF me THEN 1 ELSE 0

\* impl MarshaledTy for bool: match me { 0 => Some(false), 1 => Some(true), _ => None }
FromPrimBool(me) ==
    CASE me = 0 -> Some(FALSE)
      [] me = 1 -> Some(TRUE)
      [] OTHER -> None

\* impl_func_ty!: me.into().  A char is the record [cp |-> code point].
IntoPrimInt(ty, me) == IF ty = "char" THEN me.cp ELSE me

FromPrimIntWrapping(ty, me) ==
    CASE ty = "u8" -> Some(me % (U8Max + 1))
      [] ty = "u16" -> Some(me % (U16Max + 1))
      [] ty = "i8" -> Some(((me - I8Min) % (I8Max - I8Min + 1)) + I8Min)
      [] ty = "i16" -> Some(((me - I16Min) % (I16Max - I16Min + 1)) + I16Min)
      [] ty = "char" -> Some([cp |-> me])
      [] ty \in {"u32", "i32", "u64", "i64"} -> Some(me)

\* impl_func_ty!: Self::try_from(me).ok()
FromPrimInt(ty, me) ==
    CASE ty = "u8" -> IF me <= U8Max THEN Some(me) ELSE None
      [] ty = "u16" -> IF me <= U16Max THEN Some(me) ELSE None
      [] ty = "i8" -> IF I8Min <= me /\ me <= I8Max THEN Some(me) ELSE None
      [] ty = "i16" -> IF I16Min <= me /\ me <= I16Max THEN Some(me) ELSE None
      [] ty = "char" ->
            IF me < SurrogateLo \/ (SurrogateHi < me /\ me <= CharMax)
            THEN Some([cp |-> me]) ELSE None
      [] ty \in {"u32", "i32", "u64", "i64"} -> Some(me)

\* impl MarshaledTy for $name (define_le!): <$ty>::into_prim(me.get())
IntoPrimLe(ty, me) == IntoPrimInt(LeInner(ty), LeGet(ty, me))

\* impl MarshaledTy for $name (define_le!): <$ty>::from_prim(me).map(Self::new)
FromPrimLe(ty, me) ==
    LET inner == FromPrimInt(LeInner(ty), me)
    IN  IF IsSome(inner) THEN Some(LeNew(ty, inner.val)) ELSE None

\* impl MarshaledTy for WasmPtr<T>: MarshaledTy::into_prim(me.addr)
IntoPrimPtr(me) == IntoPrimLe("LeU32", me.addr)

\* impl MarshaledTy for WasmPtr<T>: from_prim(me).map(|addr| Self { addr })
FromPrimPtr(me) ==
    LET addr == FromPrimLe("LeU32", me)
    IN  IF IsSome(addr) THEN Some([addr |-> addr.val]) ELSE None

\* impl MarshaledTy for WasmSlice<T>
IntoPrimSlice(me) ==
    CastRawToU64(LeGet("LeU32", me.base.addr), LeGet("LeU32", me.len))

\* impl MarshaledTy for WasmSlice<T>
FromPrimSlice(me) ==
    LET raw == CastU64ToRaw(me)
    IN  Some([base |-> [addr |-> LeNew("LeU32", raw[1])],
              len  |-> LeNew("LeU32", raw[2])])

\* impl MarshaledTy for WasmStr: WasmSlice::into_prim(me.0)
IntoPrimStr(me) == IntoPrimSlice(me.slice)

\* impl MarshaledTy for WasmStr: Some(WasmStr(WasmSlice::from_prim(me).unwrap()))
FromPrimStr(me) == Some([slice |-> FromPrimSlice(me).val])

\* MarshaledTy::into_prim, by implementing type
into_prim(ty, me) ==
    CASE ty \in IntTys -> IntoPrimInt(ty, me)
      [] ty = "bool" -> IntoPrimBool(me)
      [] IsLe(ty) -> IntoPrimLe(ty, me)
      [] ty = "WasmPtr" -> IntoPrimPtr(me)
      [] ty = "WasmSlice" -> IntoPrimSlice(me)
      [] ty = "WasmStr" -> IntoPrimStr(me)

\* MarshaledTy::from_prim, by implementing type
from_prim(ty, me) ==
    CASE ty \in IntTys -> FromPrimInt(ty, me)
      [] ty = "bool" -> FromPrimBool(me)
      [] IsLe(ty) -> FromPrimLe(ty, me)
      [] ty = "WasmPtr" -> FromPrimPtr(me)
      [] ty = "WasmSlice" -> FromPrimSlice(me)
      [] ty = "WasmStr" -> FromPrimStr(me)

(***************************************************************************)
(* MarshaledTyList: into_prims / from_prims over tuples                    *)
(***************************************************************************)
\* impl_variadic!: the per-arity implementations are generated for V1 .. V12 and
\* every shorter suffix, down to the empty tuple.
MaxArity == 12

\* impl_marshaled_res_ty!: ( $(MarshaledTy::into_prim($para),)* )
into_prims(tys, me) == [i \in 1..Len(tys) |-> into_prim(tys[i], me[i])]

RECURSIVE FromPrimsNoStop(_, _, _, _, _)
FromPrimsNoStop(tys, me, i, acc, bad) ==
    IF i > Len(tys)
    THEN [out |-> IF bad THEN None ELSE Some(acc), attempts |-> i - 1]
    ELSE LET d == from_prim(tys[i], me[i])
         IN  IF IsSome(d)
             THEN FromPrimsNoStop(tys, me, i + 1, Append(acc, d.val), bad)
             ELSE FromPrimsNoStop(tys, me, i + 1, acc, TRUE)

RECURSIVE FromPrimsSkip(_, _, _, _, _)
FromPrimsSkip(tys, me, i, acc, bad) ==
    IF i > Len(tys)
    THEN [out |-> Some(acc), attempts |-> i - 1]
    ELSE LET d == from_prim(tys[i], me[i])
         IN  IF IsSome(d)
             THEN FromPrimsSkip(tys, me, i + 1, Append(acc, d.val), bad)
             ELSE FromPrimsSkip(tys, me, i + 1, acc, TRUE)

RECURSIVE FromPrimsFrom(_, _, _, _, _)
\* impl_marshaled_res_ty!: Some(( $(MarshaledTy::from_prim($para)?,)* )).  The
\* components are decoded left to right and `?` returns None at the first that
\* fails; attempts counts the from_prim calls made (bad is unused by the code: it
\* is the flag a non-short-circuiting loop would carry).
FromPrimsFrom(tys, me, i, acc, bad) ==
    IF i > Len(tys)
    THEN [out |-> Some(acc), attempts |-> i - 1]
    ELSE LET d == from_prim(tys[i], me[i])
         IN  IF IsSome(d)
             THEN FromPrimsFrom(tys, me, i + 1, Append(acc, d.val), bad)
             ELSE [out |-> None, attempts |-> i]

\* MarshaledTyList::from_prims with the number of components it tried to decode
FromPrimsRun(tys, me) == FromPrimsFrom(tys, me, 1, <<>>, FALSE)

\* MarshaledTyList::from_prims (the blanket impl for a bare T is the arity-1 case)
from_prims(tys, me) == FromPrimsRun(tys, me).out

(***************************************************************************)
(* Inputs                                                                  *)
(***************************************************************************)
I32Max == 2147483647

U32Samples ==
    {0, 1, 2, 65, U8Max, U8Max + 1, 300, U16Max, U16Max + 1, SurrogateLo - 1,
     SurrogateLo, SurrogateHi, SurrogateHi + 1, CharMax, CharMax + 1, I32Max}

I32Samples ==
    {-I32Max, I16Min - 1, I16Min, I8Min - 1, I8Min, -1, 0, 1, I8Max, I8Max + 1,
     I16Max, I16Max + 1, I32Max}

HalfSamples == {0, 1, 300, I32Max}

U64Samples == HalfSamples \X HalfSamples

\* the primitive values of a primitive type
Prims(pty) ==
    CASE pty = "u32" -> U32Samples
      [] pty = "i32" -> I32Samples
      [] pty \in {"u64", "i64"} -> U64Samples

\* the values of a marshal-able type: everything the type can hold among the samples
Values(ty) ==
    CASE ty = "u8" -> {v \in U32Samples : v <= U8Max}
      [] ty = "u16" -> {v \in U32Samples : v <= U16Max}
      [] ty = "u32" -> U32Samples
      [] ty = "i8" -> {v \in I32Samples : I8Min <= v /\ v <= I8Max}
      [] ty = "i16" -> {v \in I32Samples : I16Min <= v /\ v <= I16Max}
      [] ty = "i32" -> I32Samples
      [] ty \in {"u64", "i64"} -> U64Samples
      [] ty = "char" ->
            {[cp |-> v] : v \in {c \in U32Samples :
                c < SurrogateLo \/ (SurrogateHi < c /\ c <= CharMax)}}
      [] ty = "bool" -> BOOLEAN
      [] ty = "LeI16" -> {LeBytes(v, 2) : v \in {w \in I32Samples : I16Min <= w /\ w <= I16Max}}
      [] ty = "LeU16" -> {LeBytes(v, 2) : v \in {w \in U32Samples : w <= U16Max}}
      [] ty = "LeI32" -> {LeBytes(v, 4) : v \in I32Samples}
      [] ty = "LeU32" -> {LeBytes(v, 4) : v \in U32Samples}
      [] ty \in {"LeI64", "LeU64"} ->
            {LeBytes(v[1], 4) \o LeBytes(v[2], 4) : v \in U64Samples}
      [] ty = "WasmPtr" -> {[addr |-> LeBytes(a, 4)] : a \in HalfSamples}
      [] ty = "WasmSlice" ->
            {[base |-> [addr |-> LeBytes(v[1], 4)], len |-> LeBytes(v[2], 4)] :
                v \in U64Samples}
      [] ty = "WasmStr" ->
            {[slice |-> [base |-> [addr |-> LeBytes(v[1], 4)], len |-> LeBytes(v[2], 4)]] :
                v \in U64Samples}

\* the parameter types of the tuples tried, cycled from a starting offset
TyCycle == <<"u8", "bool", "i16", "u32", "char", "LeU16", "WasmPtr", "i8", "u16", "WasmSlice">>

TupleTys(n, shift) == [i \in 1..n |-> TyCycle[((i - 1 + shift) % Len(TyCycle)) + 1]]

\* a primitive the type decodes
GoodPrim(ty) ==
    CASE PrimOf(ty) = "u32" -> 1
      [] PrimOf(ty) = "i32" -> -1
      [] OTHER -> <<300, 1>>

\* a primitive outside the type's domain, where the type has one
BadPrim(ty) ==
    CASE ty \in {"u8", "bool"} -> 300
      [] ty \in {"u16", "LeU16"} -> U16Max + 1
      [] ty = "char" -> SurrogateLo
      [] ty = "i8" -> I8Max + 1
      [] ty \in {"i16", "LeI16"} -> I16Min - 1
      [] OTHER -> GoodPrim(ty)

TuplePrims(tys, bad) ==
    [i \in 1..Len(tys) |-> IF i \in bad THEN BadPrim(tys[i]) ELSE GoodPrim(tys[i])]

\* the sets of at most two positions of an n-tuple
BadSets(n) == {b \in SUBSET (1..n) : Cardinality(b) <= 2}

\* number of starting offsets into TyCycle tried
MaxShift == 2

(***************************************************************************)
(* State after construction                                                *)
(***************************************************************************)
Idle == [op |-> "none"]

InitMarshal ==
    /\ bigEndian \in BOOLEAN
    /\ mem = <<>>
    /\ table = <<>>
    /\ guestCalls = <<>>
    /\ hostCalls = <<>>
    /\ res = Idle

(***************************************************************************)
(* The marshalling operations.  They are pure functions: each behaviour    *)
(* applies one of them to one input.                                       *)
(***************************************************************************)
IntoPrimOp ==
    /\ res = Idle
    /\ \E ty \in MarshaledTys : \E v \in Values(ty) :
        /\ res' = [op |-> "into_prim", ty |-> ty, arg |-> v, out |-> into_prim(ty, v)]
        /\ UNCHANGED <<bigEndian, mem, table, guestCalls, hostCalls>>

FromPrimOp ==
    /\ res = Idle
    /\ \E ty \in MarshaledTys : \E p \in Prims(PrimOf(ty)) :
        /\ res' = [op |-> "from_prim", ty |-> ty, arg |-> p, out |-> from_prim(ty, p)]
        /\ UNCHANGED <<bigEndian, mem, table, guestCalls, hostCalls>>

IntoPrimsOp ==
    /\ res = Idle
    /\ \E n \in 0..MaxArity : \E shift \in 0..MaxShift :
        LET tys == TupleTys(n, shift)
            me  == [i \in 1..n |-> CHOOSE v \in Values(tys[i]) :
                        into_prim(tys[i], v) = GoodPrim(tys[i])]
        IN  /\ res' = [op |-> "into_prims", tys |-> tys, arg |-> me,
                       out |-> into_prims(tys, me)]
            /\ UNCHANGED <<bigEndian, mem, table, guestCalls, hostCalls>>

FromPrimsOp ==
    /\ res = Idle
    /\ \E n \in 0..MaxArity : \E shift \in 0..MaxShift : \E bad \in BadSets(n) :
        LET tys == TupleTys(n, shift)
            me  == TuplePrims(tys, bad)
            run == FromPrimsRun(tys, me)
        IN  /\ res' = [op |-> "from_prims", tys |-> tys, arg |-> me,
                       out |-> run.out, attempts |-> run.attempts]
            /\ UNCHANGED <<bigEndian, mem, table, guestCalls, hostCalls>>

NextMarshal == IntoPrimOp \/ FromPrimOp \/ IntoPrimsOp \/ FromPrimsOp

SpecMarshal == InitMarshal /\ [][NextMarshal]_vars

(***************************************************************************)
(* Host-call adapter: HostSideMarshaledFunc::wrap_host                     *)
(***************************************************************************)
RECURSIVE ParseArgsLenient(_, _, _, _)
ParseArgsLenient(tys, prims, i, acc) ==
    IF i > Len(tys)
    THEN Ok(acc)
    ELSE LET d == from_prim(tys[i], prims[i])
         IN  ParseArgsLenient(tys, prims, i + 1,
                              IF IsSome(d) THEN Append(acc, d.val) ELSE acc)

RECURSIVE ParseArgs(_, _, _, _)
\* $(<$ty>::from_prim($ty).context("failed to parse argument")?),* : the argument
\* expressions of the call to self, evaluated left to right before the call
ParseArgs(tys, prims, i, acc) ==
    IF i > Len(tys)
    THEN Ok(acc)
    ELSE LET d == from_prim(tys[i], prims[i])
         IN  IF IsSome(d)
             THEN ParseArgs(tys, prims, i + 1, Append(acc, d.val))
             ELSE Err("failed to parse argument")

wrap_host_eager(tys, retTys, prims, fres) ==
    LET args == ParseArgs(tys, prims, 1, <<>>)
    IN  [invoked |-> <<ParseArgsLenient(tys, prims, 1, <<>>).val>>,
         out     |-> IF ~IsOk(args) THEN args
                     ELSE IF IsOk(fres) THEN Ok(into_prims(retTys, fres.val))
                     ELSE fres]

\* The closure wrap_host returns, run on the primitives prims.  The wrapped native
\* function self is given by fres, the result it returns if it is called; invoked
\* lists the argument tuples self was called with.
wrap_host(tys, retTys, prims, fres) ==
    LET args == ParseArgs(tys, prims, 1, <<>>)
    IN  IF ~IsOk(args)
        THEN [invoked |-> <<>>, out |-> args]
        ELSE [invoked |-> <<args.val>>,
              out     |-> IF IsOk(fres) THEN Ok(into_prims(retTys, fres.val)) ELSE fres]

\* most invocations of the native function in one behaviour
MaxHostCalls == 2

\* largest arity of the host functions called
MaxHostArity == 4

\* what the wrapped native function (-> anyhow::Result<u32>) may return
HostResults == {Ok(<<5>>), Err("host function failed")}

\* The guest calls an import bound with bind_to_linker: the closure of wrap_host runs.
HostCall ==
    /\ Len(hostCalls) < MaxHostCalls
    /\ \E n \in 0..MaxHostArity : \E bad \in BadSets(n) : \E fres \in HostResults :
        LET tys == TupleTys(n, 0)
            me  == TuplePrims(tys, bad)
            r   == wrap_host(tys, <<"u32">>, me, fres)
        IN  /\ hostCalls' = hostCalls \o r.invoked
            /\ res' = [op |-> "host_call", tys |-> tys, arg |-> me, out |-> r.out]
            /\ UNCHANGED <<bigEndian, mem, table, guestCalls>>

NextHost == HostCall

SpecHost == InitMarshal /\ [][NextHost]_vars

(***************************************************************************)
(* Memory accessor: MemoryRead                                             *)
(***************************************************************************)
\* the number of u32 values: the stand-in for 2^32
U32Limit == 16

\* A wasm32 linear memory holds at most 2^32 bytes (65536 pages of 64 KiB), one
\* more than the largest u32; the host's usize is 64 bits wide.
MaxMemLen == U32Limit

\* the values of a u32
U32 == 0..(U32Limit - 1)

wrapping_mul(a, b) == Some((a * b) % U32Limit)

\* u32::checked_mul
checked_mul(a, b) == IF a * b < U32Limit THEN Some(a * b) ELSE None

\* u32::checked_add
checked_add(a, b) == IF a + b < U32Limit THEN Some(a + b) ELSE None

\* u32::try_from(usize)
u32_try_from(n) == IF n < U32Limit THEN Some(n) ELSE None

as_slice_cached == IF res.op = "load_range" THEN SubSeq(mem, 1, res.memLen) ELSE mem

\* MemoryRead::as_slice on the context's memory (ContextMemoryExt::main_memory):
\* the memory as it is when the accessor runs
as_slice == mem

load_range_exclusive(m, base, len) ==
    IF base + len < Len(m)
    THEN Ok([off |-> base, bytes |-> SubSeq(m, base + 1, base + len)])
    ELSE Err("failed to read memory range")

\* MemoryRead::load_range: m.get(base as usize..).and_then(|s| s.get(..len as usize)).
\* The view returned is the bytes with the guest offset they start at.
load_range(m, base, len) ==
    IF base <= Len(m)
    THEN LET s == SubSeq(m, base + 1, Len(m))
         IN  IF len <= Len(s)
             THEN Ok([off |-> base, bytes |-> SubSeq(s, 1, len)])
             ELSE Err("failed to read memory range")
    ELSE Err("failed to read memory range")

\* the byte the initial memory holds at a guest offset
InitByte(off) == off + 1

\* the bytes of a wasm page (64 KiB), scaled down
PageSize == 4

\* A byte slice of any length: MemoryRead is implemented for [u8].
InitMem ==
    /\ bigEndian \in BOOLEAN
    /\ \E L \in 0..MaxMemLen : mem = [i \in 1..L |-> InitByte(i - 1)]
    /\ table = <<>>
    /\ guestCalls = <<>>
    /\ hostCalls = <<>>
    /\ res = Idle

\* The memory of an instance: a whole number of pages.
InitPages ==
    /\ bigEndian \in BOOLEAN
    /\ \E L \in {n \in 0..MaxMemLen : n % PageSize = 0} :
            mem = [i \in 1..L |-> InitByte(i - 1)]
    /\ table = <<>>
    /\ guestCalls = <<>>
    /\ hostCalls = <<>>
    /\ res = Idle

\* the memory length at which the access (base, len) failed when it was the access
\* last made, and -1 otherwise
RetryOf(base, len) ==
    IF res.op = "load_range" /\ res.base = base /\ res.len = len /\ ~IsOk(res.out)
    THEN res.memLen ELSE -1

\* The host reads a byte range of the guest's memory.
LoadRange ==
    \E base \in U32 : \E len \in U32 :
        /\ res' = [op |-> "load_range", base |-> base, len |-> len,
                   memLen |-> Len(mem), retryOf |-> RetryOf(base, len),
                   out |-> load_range(as_slice, base, len)]
        /\ UNCHANGED <<bigEndian, mem, table, guestCalls, hostCalls>>

\* The guest grows its memory by a page (memory.grow); the new bytes are zero.
Grow ==
    /\ Len(mem) + PageSize <= MaxMemLen
    /\ mem' = mem \o [i \in 1..PageSize |-> 0]
    /\ UNCHANGED <<bigEndian, table, guestCalls, hostCalls, res>>

\* the accessor over one byte slice
NextMem == (res = Idle /\ LoadRange)

SpecMem == InitMem /\ [][NextMem]_vars

\* the accessor over an instance's memory, which the guest grows between accesses
NextGrow == LoadRange \/ Grow

SpecGrow == InitPages /\ [][NextGrow]_vars

(***************************************************************************)
(* Typed views: size_of_32, align_of_32, bytemuck, MemoryRead's typed loads *)
(***************************************************************************)
\* the Pod types read and written; DynMeta is the struct a WasmDynamic's meta
\* pointer addresses
PodTys == {"u8", "u16", "u32", "DynMeta", "WasmFunc"}

\* The struct behind a WasmDynamic's meta pointer, with the fields run_dtor and
\* get_vtable read: { dtor: WasmFunc, needs_drop: LeU32, vtable: WasmPtr<V> },
\* three little-endian 32-bit fields without padding.
DynMetaSize == 12

DynMetaAlign == 4

\* the bytes of a meta struct
DynMetaBytes(v) == v.dtor \o v.needs_drop \o v.vtable.addr

\* the meta struct a reference to DynMetaSize bytes denotes
DynMetaValue(bs) ==
    [dtor |-> SubSeq(bs, 1, 4), needs_drop |-> SubSeq(bs, 5, 8),
     vtable |-> [addr |-> SubSeq(bs, 9, 12)]]

\* A function-table index stored in guest memory, WasmFunc<A, R>: one LeU32, addr
\* (WasmFuncRef::decode reads idx.addr().get()).
WasmFuncSize == 4

WasmFuncAlign == 4

\* size_of_32::<T>()
size_of_32(T) ==
    CASE T = "u8" -> 1
      [] T = "u16" -> 2
      [] T = "u32" -> 4
      [] T = "DynMeta" -> DynMetaSize
      [] T = "WasmFunc" -> WasmFuncSize

\* align_of_32::<T>()
align_of_32(T) ==
    CASE T = "u8" -> 1
      [] T = "u16" -> 2
      [] T = "u32" -> 4
      [] T = "DynMeta" -> DynMetaAlign
      [] T = "WasmFunc" -> WasmFuncAlign

RECURSIVE Reverse(_)
Reverse(q) == IF q = <<>> THEN <<>> ELSE Append(Reverse(Tail(q)), Head(q))

\* the in-memory bytes of an integer of n bytes on the host: u32::to_ne_bytes
NativeBytes(v, n) == IF bigEndian THEN Reverse(LeBytes(v, n)) ELSE LeBytes(v, n)

\* the integer the host reads from n bytes: u32::from_ne_bytes
FromNativeBytes(bs) == IF bigEndian THEN FromLeBytesU(Reverse(bs)) ELSE FromLeBytesU(bs)

\* bytemuck::bytes_of(&T)
bytes_of(T, v) ==
    CASE T = "DynMeta" -> DynMetaBytes(v)
      [] T = "WasmFunc" -> v.addr
      [] OTHER -> NativeBytes(v, size_of_32(T))

\* the value of type T a reference to size_of::<T>() bytes denotes
PodValue(T, bs) ==
    CASE T = "DynMeta" -> DynMetaValue(bs)
      [] T = "WasmFunc" -> [addr |-> bs]
      [] OTHER -> FromNativeBytes(bs)

try_from_bytes_unaligned(T, view) ==
    IF Len(view.bytes) # size_of_32(T) THEN Err("failed to parse object")
    ELSE Ok(PodValue(T, view.bytes))

\* bytemuck::try_from_bytes::<T>: the length must be size_of::<T>() and the address
\* a multiple of align_of::<T>().  The memory's base address is page-aligned, so
\* the address is aligned when the guest offset is.
try_from_bytes(T, view) ==
    IF Len(view.bytes) # size_of_32(T) THEN Err("failed to parse object")
    ELSE IF view.off % align_of_32(T) # 0 THEN Err("failed to parse object")
    ELSE Ok(PodValue(T, view.bytes))

\* bytemuck::try_cast_slice::<u8, T>: alignment first, then no bytes left over
try_cast_slice(T, view) ==
    IF view.off % align_of_32(T) # 0 THEN Err("failed to parse slice")
    ELSE IF Len(view.bytes) % size_of_32(T) # 0 THEN Err("failed to parse slice")
    ELSE Ok([i \in 1..(Len(view.bytes) \div size_of_32(T)) |->
                PodValue(T, SubSeq(view.bytes, (i - 1) * size_of_32(T) + 1,
                                   i * size_of_32(T)))])

\* MemoryRead::load_struct_raw
load_struct_raw(m, T, ptr) ==
    LET r == load_range(m, ptr, size_of_32(T))
    IN  IF IsOk(r) THEN try_from_bytes(T, r.val) ELSE r

\* MemoryRead::load_slice_raw
load_slice_raw(m, T, base, len) ==
    LET sz == checked_mul(len, size_of_32(T))
    IN  IF ~IsSome(sz) THEN Err("slice is too big")
        ELSE LET r == load_range(m, base, sz.val)
             IN  IF IsOk(r) THEN try_cast_slice(T, r.val) ELSE r

\* WasmPtr::new: a pointer holding the offset as a LeU32
WasmPtrNew(off) == [addr |-> LeNew("LeU32", off)]

\* MemoryRead::load_struct: self.load_struct_raw(ptr.addr().get())
load_struct(m, T, ptr) == load_struct_raw(m, T, LeGet("LeU32", ptr.addr))

\* MemoryRead::load_slice: self.load_slice_raw(ptr.base.addr().get(), ptr.len.get())
load_slice(m, T, ptr) ==
    load_slice_raw(m, T, LeGet("LeU32", ptr.base.addr), LeGet("LeU32", ptr.len))

\* The host reads a value of a Pod type at a guest pointer.
LoadStruct ==
    \E T \in PodTys : \E base \in U32 :
        /\ res' = [op |-> "load_struct", ty |-> T, base |-> base, memLen |-> Len(mem),
                   out |-> load_struct(as_slice, T, WasmPtrNew(base))]
        /\ UNCHANGED <<bigEndian, mem, table, guestCalls, hostCalls>>

\* The host reads a slice of values of a Pod type the guest described by base and
\* element count.
LoadSlice ==
    \E T \in PodTys : \E base \in U32 : \E len \in U32 :
        /\ res' = [op |-> "load_slice", ty |-> T, base |-> base, len |-> len,
                   memLen |-> Len(mem),
                   out |-> load_slice(as_slice, T, [base |-> WasmPtrNew(base),
                                                    len  |-> LeNew("LeU32", len)])]
        /\ UNCHANGED <<bigEndian, mem, table, guestCalls, hostCalls>>

\* the typed loads over one memory
NextTyped == (res = Idle /\ LoadStruct) \/ (res = Idle /\ LoadSlice)

SpecTyped == InitMem /\ [][NextTyped]_vars

(***************************************************************************)
(* MemoryWrite.  A write returns its result and the memory it leaves.      *)
(***************************************************************************)
\* MemoryWrite::load_range_mut, then copy_from_slice(data) into the range
write_range_mut(m, base, data) ==
    LET len == u32_try_from(Len(data))
    IN  IF ~IsSome(len) THEN [out |-> Err("slice is too big"), mem |-> m]
        ELSE IF IsOk(load_range(m, base, len.val))
        THEN [out |-> Ok(<<>>),
              mem |-> [i \in 1..Len(m) |->
                          IF base < i /\ i <= base + len.val THEN data[i - base] ELSE m[i]]]
        ELSE [out |-> Err("failed to read memory range"), mem |-> m]

\* MemoryWrite::write_struct
write_struct(m, T, base, data) ==
    write_range_mut(m, LeGet("LeU32", base.addr), bytes_of(T, data))

RECURSIVE WriteSliceByOne(_, _, _, _, _, _)
WriteSliceByOne(m, T, offset, items, i, count) ==
    IF i > Len(items)
    THEN [out |-> Ok(count), mem |-> m]
    ELSE LET w == write_struct(m, T, WasmPtrNew(offset), items[i])
         IN  IF ~IsOk(w.out) THEN w
             ELSE LET nxt == checked_add(offset, 1)
                  IN  IF ~IsSome(nxt)
                      THEN [out |-> Err("wrote too many elements into memory"),
                            mem |-> w.mem]
                      ELSE WriteSliceByOne(w.mem, T, nxt.val, items, i + 1, count + 1)

RECURSIVE WriteSliceFrom(_, _, _, _, _, _)
\* the loop of MemoryWrite::write_slice: item i is written at offset, then offset
\* advances by size_of_32::<T>() with checked_add
WriteSliceFrom(m, T, offset, items, i, count) ==
    IF i > Len(items)
    THEN [out |-> Ok(count), mem |-> m]
    ELSE LET w == write_struct(m, T, WasmPtrNew(offset), items[i])
         IN  IF ~IsOk(w.out) THEN w
             ELSE LET nxt == checked_add(offset, size_of_32(T))
                  IN  IF ~IsSome(nxt)
                      THEN [out |-> Err("wrote too many elements into memory"),
                            mem |-> w.mem]
                      ELSE WriteSliceFrom(w.mem, T, nxt.val, items, i + 1, count + 1)

\* MemoryWrite::write_slice
write_slice(m, T, base, items) ==
    WriteSliceFrom(m, T, LeGet("LeU32", base.addr), items, 1, 0)

\* the slices written and allocated: n elements 10, 20, 30, ...
SliceValues(n) == [i \in 1..n |-> 10 * i]

\* the bytes the host writes with write_range_mut: n bytes 201, 202, ...
RangeData(n) == [i \in 1..n |-> 200 + i]

\* the lengths of the byte strings written; U32Limit bytes are more than a u32 counts
RangeLens == {0, 1, 3, U32Limit}

\* the value of a Pod type the host writes with write_struct
StructValue(T) ==
    CASE T = "u8" -> 171
      [] T = "u16" -> 43981
      [] T = "u32" -> 19088743

\* The host copies bytes into the guest's memory.
WriteRange ==
    \E base \in U32 : \E n \in RangeLens :
        \E w \in {write_range_mut(mem, base, RangeData(n))} :
            /\ mem' = w.mem
            /\ res' = [op |-> "write_range", base |-> base, len |-> n,
                       data |-> RangeData(n), out |-> w.out]
            /\ UNCHANGED <<bigEndian, table, guestCalls, hostCalls>>

\* The host writes one value of a Pod type at a guest pointer.
WriteStruct ==
    \E T \in {"u8", "u16", "u32"} : \E base \in U32 :
        \E w \in {write_struct(mem, T, WasmPtrNew(base), StructValue(T))} :
            /\ mem' = w.mem
            /\ res' = [op |-> "write_struct", ty |-> T, base |-> base,
                       len |-> size_of_32(T), data |-> bytes_of(T, StructValue(T)),
                       out |-> w.out]
            /\ UNCHANGED <<bigEndian, table, guestCalls, hostCalls>>

\* The host writes a sequence of values of a Pod type from a guest pointer on.
WriteSlice ==
    \E T \in {"u8", "u16", "u32"} : \E base \in U32 : \E n \in 0..(U32Limit + 1) :
        \E w \in {write_slice(mem, T, WasmPtrNew(base), SliceValues(n))} :
            /\ mem' = w.mem
            /\ res' = [op |-> "write_slice", ty |-> T, base |-> base,
                       items |-> SliceValues(n), out |-> w.out]
            /\ UNCHANGED <<bigEndian, table, guestCalls, hostCalls>>

\* one write into one memory
NextWrite ==
    \/ (res = Idle /\ WriteRange)
    \/ (res = Idle /\ WriteStruct)
    \/ (res = Idle /\ WriteSlice)

SpecWrite == InitMem /\ [][NextWrite]_vars

(***************************************************************************)
(* Guest calls and the allocator bridge                                    *)
(***************************************************************************)
\* What a guest function does when it is called: it traps or returns ret, and it
\* may have grown the memory by pages pages before either.
GuestRuns(rets) == [trap : BOOLEAN, ret : rets, pages : {0, 1}]

\* the memory after the guest function ran
GuestEffect(m, g) ==
    IF g.pages = 1 /\ Len(m) + PageSize <= MaxMemLen
    THEN m \o [i \in 1..PageSize |-> 0] ELSE m

\* WasmFuncRef::call for the allocator, WasmFuncRef<(u32, u32), WasmPtr<()>>:
\* R::from_prims(self.0.call(store, A::into_prims(args))?)
\*     .context("failed to deserialize results")
alloc(m, size, align, g) ==
    LET call == [func |-> "alloc", args |-> into_prims(<<"u32", "u32">>, <<size, align>>)]
        r    == from_prims(<<"WasmPtr">>, <<g.ret>>)
    IN  [out   |-> IF g.trap THEN Err("guest call failed")
                   ELSE IF IsSome(r) THEN Ok(r.val[1])
                   ELSE Err("failed to deserialize results"),
         mem   |-> GuestEffect(m, g),
         calls |-> <<call>>]

\* ContextMemoryExt::alloc_slice.  g is what the guest's allocator does if called.
alloc_slice(m, T, values, g) ==
    LET len == u32_try_from(Len(values))
    IN  IF ~IsSome(len)
        THEN [out |-> Err("too many elements in slice"), mem |-> m, calls |-> <<>>]
        ELSE LET size == checked_mul(size_of_32(T), len.val)
             IN  IF ~IsSome(size)
                 THEN [out |-> Err("slice is too big"), mem |-> m, calls |-> <<>>]
                 ELSE LET a == alloc(m, size.val, align_of_32(T), g)
                      IN  IF ~IsOk(a.out) THEN a
                          ELSE LET base == [addr |-> a.out.val.addr]
                                   w    == write_slice(a.mem, T, base, values)
                               IN  [out   |-> IF IsOk(w.out)
                                              THEN Ok([base |-> base,
                                                       len  |-> LeNew("LeU32", len.val)])
                                              ELSE w.out,
                                    mem   |-> w.mem,
                                    calls |-> a.calls]

\* An instance's memory of one page or more, before the allocator was called.
InitAlloc ==
    /\ bigEndian \in BOOLEAN
    /\ \E L \in {n \in 1..MaxMemLen : n % PageSize = 0} :
            mem = [i \in 1..L |-> InitByte(i - 1)]
    /\ table = <<>>
    /\ guestCalls = <<>>
    /\ hostCalls = <<>>
    /\ res = Idle

\* The host places a slice in guest memory.  One allocation is followed per
\* behaviour.
AllocSlice ==
    /\ res = Idle
    /\ \E T \in {"u8", "u16", "u32"} : \E n \in 0..(U32Limit + 1) : \E g \in GuestRuns(U32) :
        LET r == alloc_slice(mem, T, SliceValues(n), g)
        IN  /\ mem' = r.mem
            /\ guestCalls' = guestCalls \o r.calls
            /\ res' = [op |-> "alloc_slice", ty |-> T, values |-> SliceValues(n),
                       guest |-> g, calls |-> r.calls, out |-> r.out]
            /\ UNCHANGED <<bigEndian, table, hostCalls>>

NextAlloc == AllocSlice

SpecAlloc == InitAlloc /\ [][NextAlloc]_vars

(***************************************************************************)
(* Function table, WasmFuncRef, and the dynamic-object protocol            *)
(***************************************************************************)
\* the wasm value type wasmtime gives a primitive
ValTy(pty) == IF pty \in {"u32", "i32"} THEN "i32" ELSE "i64"

\* the function type of TypedFunc<A::Prims, R::Prims>
FuncTy(argTys, retTys) ==
    [params  |-> [i \in 1..Len(argTys) |-> ValTy(PrimOf(argTys[i]))],
     results |-> [i \in 1..Len(retTys) |-> ValTy(PrimOf(retTys[i]))]]

decode_unchecked(tbl, idx, argTys, retTys) ==
    IF idx < Len(tbl.entries) /\ tbl.elem = "funcref" /\ tbl.entries[idx + 1].kind = "func"
    THEN Ok(tbl.entries[idx + 1])
    ELSE Ok([kind |-> "func", id |-> "none", ty |-> FuncTy(argTys, retTys)])

decode_cached(tbl, idx, argTys, retTys) ==
    IF res.op = "dyn_call" /\ res.lookups = <<idx>> THEN res.resolved
    ELSE IF idx >= Len(tbl.entries) THEN Err("failed to resolve table entry")
    ELSE IF tbl.elem # "funcref" \/ tbl.entries[idx + 1].kind # "func"
    THEN Err("entry is not a funcref")
    ELSE IF tbl.entries[idx + 1].ty # FuncTy(argTys, retTys) THEN Err("func has wrong type")
    ELSE Ok(tbl.entries[idx + 1])

\* WasmFuncRef::decode: table.get(idx), then funcref().flatten(), then typed()
decode(tbl, idx, argTys, retTys) ==
    IF idx >= Len(tbl.entries) THEN Err("failed to resolve table entry")
    ELSE LET entry == tbl.entries[idx + 1]
         IN  IF tbl.elem # "funcref" \/ entry.kind # "func"
             THEN Err("entry is not a funcref")
             ELSE IF entry.ty # FuncTy(argTys, retTys) THEN Err("func has wrong type")
             ELSE Ok(entry)

\* the argument types of a destructor: (WasmPtr<()>, WasmPtr<Meta>)
DtorArgs == <<"WasmPtr", "WasmPtr">>

get_vtable_single(m, obj) == load_struct(m, "WasmFunc", obj.meta)

\* WasmDynamicExt::get_vtable: mem.load_struct(mem.load_struct(self.0.meta)?.vtable),
\* for the vtable of a WasmDynamicFunc, which holds one WasmFunc
get_vtable(m, obj) ==
    LET meta == load_struct(m, "DynMeta", obj.meta)
    IN  IF IsOk(meta) THEN load_struct(m, "WasmFunc", meta.val.vtable) ELSE meta

run_dtor_two_loads(m, tbl, obj, g) ==
    LET t == load_struct(m, "DynMeta", obj.meta)
    IN  IF ~IsOk(get_vtable(m, obj))
        THEN [out |-> get_vtable(m, obj), mem |-> m, calls |-> <<>>, lookups |-> <<>>]
        ELSE IF LeGet("LeU32", t.val.needs_drop) # 0
        THEN LET idx == LeGet("LeU32", t.val.dtor)
                 d   == decode(tbl, idx, DtorArgs, <<>>)
             IN  IF ~IsOk(d)
                 THEN [out |-> d, mem |-> m, calls |-> <<>>, lookups |-> <<idx>>]
                 ELSE [out     |-> IF g.trap THEN Err("guest call failed") ELSE Ok(<<>>),
                       mem     |-> GuestEffect(m, g),
                       calls   |-> <<[func |-> d.val.id, idx |-> idx,
                                      args |-> into_prims(DtorArgs, <<obj.base, obj.meta>>)]>>,
                       lookups |-> <<idx>>]
        ELSE [out |-> Ok(<<>>), mem |-> m, calls |-> <<>>, lookups |-> <<>>]

run_dtor_always(m, tbl, obj, g) ==
    LET t == load_struct(m, "DynMeta", obj.meta)
    IN  IF ~IsOk(t) THEN [out |-> t, mem |-> m, calls |-> <<>>, lookups |-> <<>>]
        ELSE LET idx == LeGet("LeU32", t.val.dtor)
                 d   == decode(tbl, idx, DtorArgs, <<>>)
             IN  IF ~IsOk(d)
                 THEN [out |-> d, mem |-> m, calls |-> <<>>, lookups |-> <<idx>>]
                 ELSE [out     |-> IF g.trap THEN Err("guest call failed") ELSE Ok(<<>>),
                       mem     |-> GuestEffect(m, g),
                       calls   |-> <<[func |-> d.val.id, idx |-> idx,
                                      args |-> into_prims(DtorArgs, <<obj.base, obj.meta>>)]>>,
                       lookups |-> <<idx>>]

\* WasmDynamicExt::run_dtor.  g is what the guest's destructor does if called;
\* lookups lists the table indices resolved.
run_dtor(m, tbl, obj, g) ==
    LET t == load_struct(m, "DynMeta", obj.meta)
    IN  IF ~IsOk(t) THEN [out |-> t, mem |-> m, calls |-> <<>>, lookups |-> <<>>]
        ELSE IF LeGet("LeU32", t.val.needs_drop) # 0
        THEN LET idx == LeGet("LeU32", t.val.dtor)
                 d   == decode(tbl, idx, DtorArgs, <<>>)
             IN  IF ~IsOk(d)
                 THEN [out |-> d, mem |-> m, calls |-> <<>>, lookups |-> <<idx>>]
                 ELSE [out     |-> IF g.trap THEN Err("guest call failed") ELSE Ok(<<>>),
                       mem     |-> GuestEffect(m, g),
                       calls   |-> <<[func |-> d.val.id, idx |-> idx,
                                      args |-> into_prims(DtorArgs, <<obj.base, obj.meta>>)]>>,
                       lookups |-> <<idx>>]
        ELSE [out |-> Ok(<<>>), mem |-> m, calls |-> <<>>, lookups |-> <<>>]

\* most guest calls in one behaviour
MaxGuestCalls == 1

\* a function table: a null entry, a destructor, a function of another type and a
\* second destructor; or a table of externrefs
Tables ==
    {[elem |-> "funcref",
      entries |-> <<[kind |-> "null"],
                    [kind |-> "func", id |-> "dtor_a", ty |-> FuncTy(DtorArgs, <<>>)],
                    [kind |-> "func", id |-> "other", ty |-> FuncTy(<<"u32">>, <<"u32">>)],
                    [kind |-> "func", id |-> "dtor_b", ty |-> FuncTy(DtorArgs, <<>>)]>>],
     [elem |-> "externref", entries |-> <<[kind |-> "extern"], [kind |-> "extern"]>>]}

\* the offsets the guest placed the object's meta struct at
MetaOffsets == {0, 4}

\* the needs_drop flags the guest wrote
NeedsDropSamples == {0, 1, 2}

\* An instance whose memory holds the meta struct of one dynamic object.
InitDyn ==
    /\ bigEndian \in BOOLEAN
    /\ table \in Tables
    /\ \E at \in MetaOffsets : \E dtor \in 0..4 : \E nd \in NeedsDropSamples :
            mem = [i \in 1..at |-> InitByte(i - 1)]
                  \o bytes_of("DynMeta", [dtor |-> LeNew("LeU32", dtor),
                                          needs_drop |-> LeNew("LeU32", nd),
                                          vtable |-> WasmPtrNew(0)])
    /\ guestCalls = <<>>
    /\ hostCalls = <<>>
    /\ res = Idle

\* The host destroys a dynamic object the guest handed it.
RunDtor ==
    /\ Len(guestCalls) < MaxGuestCalls
    /\ \E data \in {0, 9} : \E meta \in U32 : \E g \in GuestRuns({0}) :
        LET obj == [base |-> WasmPtrNew(data), meta |-> WasmPtrNew(meta)]
            r   == run_dtor(mem, table, obj, g)
        IN  /\ mem' = r.mem
            /\ guestCalls' = guestCalls \o r.calls
            /\ res' = [op |-> "run_dtor", obj |-> obj, calls |-> r.calls,
                       lookups |-> r.lookups, out |-> r.out]
            /\ UNCHANGED <<bigEndian, table, hostCalls>>

NextDyn == RunDtor

SpecDyn == InitDyn /\ [][NextDyn]_vars

(***************************************************************************)
(* Virtual calls: get_vtable and WasmDynamicFunc::call                     *)
(***************************************************************************)
\* ExtensibleMarshaledTyList::push_on_first: the tuple with v in front
push_on_first(args, v) == <<v>> \o args

\* WasmDynamicFuncExt::call for WasmDynamicFunc<A, R> with one result.  g is what
\* the guest's function does if called; resolved is what the table lookup gave.
dyn_call(m, tbl, obj, argTys, retTys, args, g) ==
    LET func == get_vtable(m, obj)
    IN  IF ~IsOk(func)
        THEN [out |-> func, mem |-> m, calls |-> <<>>, lookups |-> <<>>,
              resolved |-> Err("no lookup")]
        ELSE LET idx  == LeGet("LeU32", func.val.addr)
                 tys  == push_on_first(argTys, "WasmPtr")
                 d    == decode(tbl, idx, tys, retTys)
                 r    == from_prims(retTys, <<g.ret>>)
             IN  IF ~IsOk(d)
                 THEN [out |-> d, mem |-> m, calls |-> <<>>, lookups |-> <<idx>>,
                       resolved |-> d]
                 ELSE [out      |-> IF g.trap THEN Err("guest call failed")
                                    ELSE IF IsSome(r) THEN Ok(r.val)
                                    ELSE Err("failed to deserialize results"),
                       mem      |-> GuestEffect(m, g),
                       calls    |-> <<[func |-> d.val.id, idx |-> idx,
                                       args |-> into_prims(tys,
                                                    push_on_first(args, obj.base))]>>,
                       lookups  |-> <<idx>>,
                       resolved |-> d]

\* the virtual method called: fn(&self, u32, bool) -> u8
MethodArgs == <<"u32", "bool">>

MethodRets == <<"u8">>

\* the function type of the method's table entry: self comes first
MethodTy == FuncTy(push_on_first(MethodArgs, "WasmPtr"), MethodRets)

\* the instance's function table: a null entry, a destructor, a method and a
\* function of a third type
VirtTable ==
    [elem |-> "funcref",
     entries |-> <<[kind |-> "null"],
                   [kind |-> "func", id |-> "dtor_a", ty |-> FuncTy(DtorArgs, <<>>)],
                   [kind |-> "func", id |-> "method_a", ty |-> MethodTy],
                   [kind |-> "func", id |-> "other", ty |-> FuncTy(<<"u32">>, <<"u32">>)]>>]

\* a table of externrefs handed out as the function table
ExternTable == [elem |-> "externref", entries |-> <<[kind |-> "extern"], [kind |-> "extern"]>>]

\* what the guest stores into its table with table.set
SetEntries ==
    {[kind |-> "null"],
     [kind |-> "func", id |-> "dtor_b", ty |-> FuncTy(DtorArgs, <<>>)],
     [kind |-> "func", id |-> "method_b", ty |-> MethodTy]}

\* the table indices the guest stores to
SetIndices == {1, 2}

\* the vtable pointers the guest wrote into the meta struct: the vtable behind the
\* meta struct, a pointer that overlaps the meta struct, and an unaligned one
VtableSamples == {0, DynMetaSize, DynMetaSize + 1}

\* the table indices the guest wrote into the vtable
MethodSamples == {2, 3, 4}

\* An instance whose memory holds the meta struct of one dynamic object at offset 0
\* and, in the larger memory, the object's vtable behind it.
InitVirt ==
    /\ bigEndian \in BOOLEAN
    /\ table \in {VirtTable, ExternTable}
    /\ \E nd \in {0, 1} : \E vt \in VtableSamples : \E f \in MethodSamples :
       \E hasVtable \in BOOLEAN :
            mem = bytes_of("DynMeta", [dtor |-> LeNew("LeU32", 1),
                                       needs_drop |-> LeNew("LeU32", nd),
                                       vtable |-> WasmPtrNew(vt)])
                  \o (IF hasVtable
                      THEN bytes_of("WasmFunc", [addr |-> LeNew("LeU32", f)])
                      ELSE <<>>)
    /\ guestCalls = <<>>
    /\ hostCalls = <<>>
    /\ res = Idle

\* the outcome of the lookup the call before this one made of the same index, and
\* Err("none") when the call before made no such lookup
PriorLookup(idx) ==
    IF res.op = "dyn_call" /\ res.lookups = idx THEN res.resolved ELSE Err("none")

\* The host calls a virtual method of a dynamic object the guest handed it.
DynCall ==
    /\ Len(guestCalls) < MaxGuestCalls
    /\ \E meta \in {0, 2, DynMetaSize} : \E ret \in {7, U8Max + 1} : \E g \in GuestRuns({ret}) :
        LET obj == [base |-> WasmPtrNew(9), meta |-> WasmPtrNew(meta)]
        IN  \E r \in {dyn_call(mem, table, obj, MethodArgs, MethodRets, <<5, TRUE>>, g)} :
            /\ mem' = r.mem
            /\ guestCalls' = guestCalls \o r.calls
            /\ res' = [op |-> "dyn_call", obj |-> obj, args |-> <<5, TRUE>>,
                       calls |-> r.calls, lookups |-> r.lookups,
                       resolved |-> r.resolved, prior |-> PriorLookup(r.lookups),
                       out |-> r.out]
            /\ UNCHANGED <<bigEndian, table, hostCalls>>

\* The guest stores an entry into its function table (table.set) between two calls
\* of the host.
TableSet ==
    \E idx \in SetIndices : \E entry \in SetEntries :
        /\ table.elem = "funcref"
        /\ table.entries[idx + 1] # entry
        /\ table' = [table EXCEPT !.entries[idx + 1] = entry]
        /\ UNCHANGED <<bigEndian, mem, guestCalls, hostCalls, res>>

\* one destructor run per object, after which the object is gone
NextVirt == (res = Idle /\ RunDtor) \/ (res.op # "run_dtor" /\ DynCall) \/ TableSet

SpecVirt == InitVirt /\ [][NextVirt]_vars

(***************************************************************************)
(* Properties of the marshalling operations                                *)
(***************************************************************************)
\* the primitives the claim of rejection names as outside a type's domain
OutOfDomain(ty, p) ==
    CASE ty = "u8" -> p > U8Max
      [] ty \in {"u16", "LeU16"} -> p > U16Max
      [] ty = "i8" -> p < I8Min \/ p > I8Max
      [] ty \in {"i16", "LeI16"} -> p < I16Min \/ p > I16Max
      [] ty = "bool" -> p \notin {0, 1}
      [] ty = "char" -> (SurrogateLo <= p /\ p <= SurrogateHi) \/ p > CharMax
      [] OTHER -> FALSE

\* the position of the first component that does not decode (0: every one decodes)
FirstBad(tys, me) ==
    LET failing == {i \in 1..Len(tys) : ~IsSome(from_prim(tys[i], me[i]))}
    IN  IF failing = {} THEN 0 ELSE CHOOSE i \in failing : \A j \in failing : i <= j

\* C5: encoding a value of any marshal-able type and decoding the primitive gives
\* back Some of the value: from_prim(into_prim(v)) = Some(v).
C5_RoundTrip ==
    res.op = "into_prim" => from_prim(res.ty, res.out) = Some(res.arg)

C5_Witness ==
    /\ res.op = "into_prim"
    /\ res.ty = "LeI16"
    /\ res.arg = <<127, 255>>
    /\ res.out = -129

\* C6: from_prim answers every primitive, and answers None (no truncated or wrapped
\* value) for a primitive outside the target type's domain: above 255 for u8, above
\* 65535 for u16, outside the i8 or i16 range, not 0 or 1 for bool, not a Unicode
\* scalar value for char.
C6_Rejection ==
    res.op = "from_prim" =>
        /\ res.out.tag \in {"Some", "None"}
        /\ OutOfDomain(res.ty, res.arg) => res.out = None

C6_Witness ==
    /\ res.op = "from_prim"
    /\ res.ty = "u8"
    /\ res.arg = 300
    /\ res.out = None

\* C7: for every arity from 0 to 12, from_prims is None exactly when some
\* component's from_prim is None, and otherwise Some of the decoded components in
\* the same order; into_prims is defined for every tuple, component by component,
\* and gives the empty tuple at arity 0.
C7_Tuples ==
    /\ res.op = "from_prims" =>
        /\ Len(res.tys) \in 0..MaxArity
        /\ (res.out = None) <=>
                (\E i \in 1..Len(res.tys) : from_prim(res.tys[i], res.arg[i]) = None)
        /\ res.out # None =>
                res.out = Some([i \in 1..Len(res.tys) |->
                                    from_prim(res.tys[i], res.arg[i]).val])
    /\ res.op = "into_prims" =>
        /\ Len(res.out) = Len(res.tys)
        /\ \A i \in 1..Len(res.tys) : res.out[i] = into_prim(res.tys[i], res.arg[i])
        /\ res.tys = <<>> => res.out = <<>>

C7_Witness ==
    /\ res.op = "from_prims"
    /\ Len(res.tys) = MaxArity
    /\ FirstBad(res.tys, res.arg) = 5
    /\ \E i \in 6..MaxArity : from_prim(res.tys[i], res.arg[i]) = None
    /\ res.out = None

\* C8 as claimed: when from_prims fails, its result identifies the position of the
\* first component whose decode failed, so two failing inputs with the same result
\* fail at the same position.
C8_ReportsPosition ==
    (res.op = "from_prims" /\ res.out = None) =>
        \A bad \in BadSets(Len(res.tys)) :
            LET other == TuplePrims(res.tys, bad)
            IN  from_prims(res.tys, other) = res.out =>
                    FirstBad(res.tys, other) = FirstBad(res.tys, res.arg)

\* C8 as amended: from_prims stops at the first invalid component (it decodes the
\* components up to and including that one and no later one; all of them when
\* every one decodes) and its result on failure is the bare None, which carries no
\* position.
C8_StopsAtFirstBad ==
    res.op = "from_prims" =>
        /\ res.out = None =>
              /\ res.attempts = FirstBad(res.tys, res.arg)
              /\ DOMAIN res.out = {"tag"}
        /\ res.out # None => res.attempts = Len(res.tys)

C8_Witness ==
    /\ res.op = "from_prims"
    /\ Len(res.tys) = 4
    /\ FirstBad(res.tys, res.arg) = 2
    /\ from_prim(res.tys[3], res.arg[3]) = None
    /\ res.attempts = 2
    /\ res.out = None

(***************************************************************************)
(* Properties of the host-call adapter                                     *)
(***************************************************************************)
\* C3: a call of a wrapped host function whose arguments do not all decode fails
\* with the argument-parsing error without invoking the native function; the
\* native function is invoked, once and with the decoded arguments, only when
\* every argument decoded.
C3_NoCallOnBadArgument ==
    [][res'.op = "host_call" =>
        IF FirstBad(res'.tys, res'.arg) # 0
        THEN /\ hostCalls' = hostCalls
             /\ res'.out = Err("failed to parse argument")
        ELSE hostCalls' = Append(hostCalls, from_prims(res'.tys, res'.arg).val)]_vars

C3_Witness ==
    /\ res.op = "host_call"
    /\ Len(res.tys) = 3
    /\ FirstBad(res.tys, res.arg) = 2
    /\ res.out = Err("failed to parse argument")
    /\ hostCalls = <<>>

(***************************************************************************)
(* Properties of the memory accessor                                       *)
(***************************************************************************)
\* C1 as claimed: load_range(base, len) succeeds iff base + len <= L and base + len
\* does not overflow 32 bits.
C1_BoundsNoOverflow ==
    res.op = "load_range" =>
        (IsOk(res.out) <=>
            (res.base + res.len <= res.memLen /\ res.base + res.len < U32Limit))

\* C1 as amended: load_range(base, len) succeeds iff base + len <= L, the sum taken
\* without wrapping; it fails for base = L, len = 1 and succeeds for base = 0,
\* len = L; on success the view is exactly the bytes base..base+len of the memory.
C1_Bounds ==
    res.op = "load_range" =>
        /\ IsOk(res.out) <=> (res.base + res.len <= res.memLen)
        /\ (res.base = res.memLen /\ res.len = 1) => ~IsOk(res.out)
        /\ (res.base = 0 /\ res.len = res.memLen) => IsOk(res.out)
        /\ (IsOk(res.out) /\ res.memLen = Len(mem)) =>
              /\ Len(res.out.val.bytes) = res.len
              /\ \A i \in 1..res.len : res.out.val.bytes[i] = mem[res.base + i]

C1_Witness ==
    /\ res.op = "load_range"
    /\ res.memLen = U32Limit
    /\ res.base = U32Limit - 1
    /\ res.len = 1
    /\ IsOk(res.out)
    /\ res.out.val.bytes = <<InitByte(U32Limit - 1)>>

\* C2: an access (base, len) that failed at memory length L succeeds when it is made
\* again, unchanged, after the memory has grown to L' with L < base + len <= L':
\* the accessor checks against the memory's current length.
C2_Growth ==
    (/\ res.op = "load_range"
     /\ res.retryOf >= 0
     /\ res.retryOf < res.memLen
     /\ res.retryOf < res.base + res.len
     /\ res.base + res.len <= res.memLen) => IsOk(res.out)

C2_Witness ==
    /\ res.op = "load_range"
    /\ res.retryOf = PageSize
    /\ res.base = PageSize - 1
    /\ res.len = 3
    /\ res.memLen = 2 * PageSize
    /\ IsOk(res.out)

(***************************************************************************)
(* Properties of the allocator bridge                                      *)
(***************************************************************************)
\* the allocator was called, returned, and what it returned is the base of a region
\* of the requested size and alignment inside the memory
RegionGranted ==
    /\ res.calls # <<>>
    /\ ~res.guest.trap
    /\ res.guest.ret % align_of_32(res.ty) = 0
    /\ res.guest.ret + Len(res.values) * size_of_32(res.ty) <= Len(mem)

\* C9: when the guest allocator returns the base of an in-bounds region of the
\* requested size and alignment, alloc_slice of n elements succeeds, the slice it
\* returns has len = n, and load_slice over it yields the n elements in order.
C9_SliceRoundTrip ==
    (res.op = "alloc_slice" /\ RegionGranted) =>
        /\ IsOk(res.out)
        /\ LeGet("LeU32", res.out.val.len) = Len(res.values)
        /\ load_slice(mem, res.ty, res.out.val) = Ok(res.values)

\* sizing the slice overflows: the element count or the byte count is no u32
SizeOverflows(T, n) == n >= U32Limit \/ n * size_of_32(T) >= U32Limit

\* C10: when the element count or length * size_of(T) does not fit in 32 bits,
\* alloc_slice fails before the guest's allocation function is called: no guest
\* call is made and the memory is unchanged.
C10_OverflowBeforeAlloc ==
    [][(res'.op = "alloc_slice" /\ SizeOverflows(res'.ty, Len(res'.values))) =>
        /\ ~IsOk(res'.out)
        /\ res'.calls = <<>>
        /\ guestCalls' = guestCalls
        /\ mem' = mem]_vars

C10_Witness ==
    /\ res.op = "alloc_slice"
    /\ res.ty = "u32"
    /\ Len(res.values) < U32Limit
    /\ Len(res.values) * 4 >= U32Limit
    /\ res.out = Err("slice is too big")
    /\ guestCalls = <<>>

(***************************************************************************)
(* Properties of the dynamic-object protocol                               *)
(***************************************************************************)
\* the struct run_dtor reads needs_drop and dtor from, in the memory as it is
\* before the call
MetaOf(obj) == load_struct(mem, "DynMeta", obj.meta)

\* the one guest call a destructor run makes: table index idx, arguments (data, meta)
DtorCalled(idx, obj) ==
    /\ Len(guestCalls') = Len(guestCalls) + 1
    /\ SubSeq(guestCalls', 1, Len(guestCalls)) = guestCalls
    /\ guestCalls'[Len(guestCalls')].idx = idx
    /\ guestCalls'[Len(guestCalls')].args =
            <<LeGet("LeU32", obj.base.addr), LeGet("LeU32", obj.meta.addr)>>

\* C4 as claimed: with needs_drop = 0 run_dtor makes no guest call and no table
\* lookup and succeeds; with needs_drop = 1 it makes exactly one guest call, to the
\* table index stored in dtor, with arguments (data, meta).
C4_DtorCalls ==
    [][(res'.op = "run_dtor" /\ IsOk(MetaOf(res'.obj))) =>
        /\ LeGet("LeU32", MetaOf(res'.obj).val.needs_drop) = 0 =>
              /\ guestCalls' = guestCalls
              /\ res'.lookups = <<>>
              /\ res'.out = Ok(<<>>)
        /\ LeGet("LeU32", MetaOf(res'.obj).val.needs_drop) = 1 =>
              DtorCalled(LeGet("LeU32", MetaOf(res'.obj).val.dtor), res'.obj)]_vars

\* C4 as amended: with needs_drop = 0 run_dtor makes no guest call and no table
\* lookup and succeeds; with needs_drop = 1 it looks up the table index stored in
\* dtor and, when that entry resolves to a function of the destructor's type, makes
\* exactly one guest call, to that index with arguments (data, meta); when the entry
\* does not resolve it makes no guest call and fails.
C4_DtorCallsIfResolved ==
    [][(res'.op = "run_dtor" /\ IsOk(MetaOf(res'.obj))) =>
        /\ LeGet("LeU32", MetaOf(res'.obj).val.needs_drop) = 0 =>
              /\ guestCalls' = guestCalls
              /\ res'.lookups = <<>>
              /\ res'.out = Ok(<<>>)
        /\ LeGet("LeU32", MetaOf(res'.obj).val.needs_drop) = 1 =>
              /\ res'.lookups = <<LeGet("LeU32", MetaOf(res'.obj).val.dtor)>>
              /\ IF IsOk(decode(table, LeGet("LeU32", MetaOf(res'.obj).val.dtor),
                                DtorArgs, <<>>))
                 THEN DtorCalled(LeGet("LeU32", MetaOf(res'.obj).val.dtor), res'.obj)
                 ELSE guestCalls' = guestCalls /\ ~IsOk(res'.out)]_vars

C4_Witness ==
    /\ res.op = "run_dtor"
    /\ IsOk(MetaOf(res.obj))
    /\ LeGet("LeU32", MetaOf(res.obj).val.needs_drop) = 1
    /\ LeGet("LeU32", MetaOf(res.obj).val.dtor) = 3
    /\ res.out = Ok(<<>>)
    /\ guestCalls = <<[func |-> "dtor_b", idx |-> 3,
                       args |-> <<9, LeGet("LeU32", res.obj.meta.addr)>>]>>

(***************************************************************************)
(* Properties of table lookups and virtual calls                           *)
(***************************************************************************)
\* the table, as it is when the call is made, has no entry at the index
EntryAbsent(idx) == idx >= Len(table.entries)

\* the entry at the index is no function reference, or is the null reference
EntryNotFunc(idx) == table.elem # "funcref" \/ table.entries[idx + 1].kind # "func"

\* the entry's function has another signature than the expected one
EntryWrongSig(idx, ty) == table.entries[idx + 1].ty # ty

\* the function type a call resolves its table entry at
ExpectedTy(op) == IF op = "run_dtor" THEN FuncTy(DtorArgs, <<>>) ELSE MethodTy

\* the table index a call has to resolve, <<>> when it has none to resolve
IndexToResolve(op, obj) ==
    IF op = "run_dtor"
    THEN IF IsOk(MetaOf(obj)) /\ LeGet("LeU32", MetaOf(obj).val.needs_drop) # 0
         THEN <<LeGet("LeU32", MetaOf(obj).val.dtor)>> ELSE <<>>
    ELSE IF IsOk(get_vtable(mem, obj))
         THEN <<LeGet("LeU32", get_vtable(mem, obj).val.addr)>> ELSE <<>>

\* C11: resolving a table index fails when the entry is absent, when it is no
\* function reference or a null one, and when its signature differs from the
\* expected argument/return tuple, and succeeds otherwise; every run_dtor that has
\* a destructor to run and every virtual call resolves its index in the table as
\* it is at that call.
C11_Lookup ==
    [][(res'.op \in {"run_dtor", "dyn_call"} /\ table' = table) =>
        /\ res'.lookups = IndexToResolve(res'.op, res'.obj)
        /\ \A i \in 1..Len(res'.lookups) :
            LET idx == res'.lookups[i]
                ty  == ExpectedTy(res'.op)
            IN  CASE EntryAbsent(idx) ->
                        /\ res'.out = Err("failed to resolve table entry")
                        /\ guestCalls' = guestCalls
                  [] EntryNotFunc(idx) ->
                        /\ res'.out = Err("entry is not a funcref")
                        /\ guestCalls' = guestCalls
                  [] EntryWrongSig(idx, ty) ->
                        /\ res'.out = Err("func has wrong type")
                        /\ guestCalls' = guestCalls
                  [] OTHER ->
                        /\ Len(guestCalls') = Len(guestCalls) + 1
                        /\ guestCalls'[Len(guestCalls')].func = table.entries[idx + 1].id
                        /\ res'.op = "dyn_call" => res'.resolved = Ok(table.entries[idx + 1])]_vars

C11_Witness ==
    /\ res.op = "dyn_call"
    /\ res.lookups = <<2>>
    /\ res.prior = Err("entry is not a funcref")
    /\ res.resolved = Ok([kind |-> "func", id |-> "method_b", ty |-> MethodTy])
    /\ Len(guestCalls) = 1
    /\ guestCalls[1].func = "method_b"

\* the unsigned little-endian 32-bit integer the memory holds at a guest offset
WordAt(off) == FromLeBytesU(SubSeq(mem, off + 1, off + 4))

\* a struct of size bytes and 4-byte alignment lies inside the memory at off
StructAt(off, size) == off % 4 = 0 /\ off + size <= Len(mem)

\* the function-table index in the vtable of obj, reached through memory: the meta
\* struct at obj.meta, then the vtable its third field points to; -1 when either
\* struct is not inside the memory or not aligned
VtableIndex(obj) ==
    LET meta == LeGet("LeU32", obj.meta.addr)
    IN  IF StructAt(meta, DynMetaSize) /\ StructAt(WordAt(meta + 8), WasmFuncSize)
        THEN WordAt(WordAt(meta + 8)) ELSE -1

\* the entry at idx resolves to a function of type ty
Resolves(idx, ty) ==
    ~EntryAbsent(idx) /\ ~EntryNotFunc(idx) /\ ~EntryWrongSig(idx, ty)

\* C12: a virtual call reads the function-table index from the vtable it reaches
\* through memory, resolves it, and calls that function exactly once with the
\* object's data offset first and the arguments after it in their order; when the
\* vtable cannot be read or the index does not resolve, no guest call is made and
\* an error is returned.
C12_VirtualCall ==
    [][(res'.op = "dyn_call" /\ table' = table) =>
        IF VtableIndex(res'.obj) >= 0 /\ Resolves(VtableIndex(res'.obj), MethodTy)
        THEN /\ Len(guestCalls') = Len(guestCalls) + 1
             /\ SubSeq(guestCalls', 1, Len(guestCalls)) = guestCalls
             /\ guestCalls'[Len(guestCalls')] =
                    [func |-> table.entries[VtableIndex(res'.obj) + 1].id,
                     idx  |-> VtableIndex(res'.obj),
                     args |-> <<LeGet("LeU32", res'.obj.base.addr)>>
                              \o into_prims(MethodArgs, res'.args)]
        ELSE /\ guestCalls' = guestCalls
             /\ mem' = mem
             /\ ~IsOk(res'.out)]_vars

C12_Witness ==
    /\ res.op = "dyn_call"
    /\ res.out = Ok(<<7>>)
    /\ table = VirtTable
    /\ guestCalls = <<[func |-> "method_a", idx |-> 2, args |-> <<9, 5, 1>>]>>

(***************************************************************************)
(* Properties of the typed loads                                           *)
(***************************************************************************)
\* C13: range computations do not wrap: load_slice(base, len) of element type T
\* fails whenever len * size_of(T) does not fit in 32 bits, and otherwise succeeds
\* only if base + len * size_of(T) lies within the memory's length, and then with
\* all len elements.
C13_NoWrap ==
    res.op = "load_slice" =>
        /\ res.len * size_of_32(res.ty) >= U32Limit => res.out = Err("slice is too big")
        /\ IsOk(res.out) =>
              /\ res.base + res.len * size_of_32(res.ty) <= res.memLen
              /\ Len(res.out.val) = res.len

\* a slice whose byte count wraps to 0 and, wrapped, would lie inside the memory
C13_Witness ==
    /\ res.op = "load_slice"
    /\ res.ty = "u32"
    /\ res.base = 0
    /\ res.len * 4 = U32Limit
    /\ res.memLen >= 4
    /\ res.out = Err("slice is too big")

\* C16: load_struct and load_slice of a type whose alignment is greater than 1 fail
\* when the address is no multiple of the alignment, also when the whole byte range
\* lies inside the memory and has the right length: the memory of an instance
\* starts at a page boundary, so a typed load at an odd guest offset is rejected.
C16_Alignment ==
    (/\ res.op \in {"load_struct", "load_slice"}
     /\ align_of_32(res.ty) > 1
     /\ res.base % align_of_32(res.ty) # 0) =>
        /\ ~IsOk(res.out)
        /\ (res.op = "load_struct" /\ res.base + size_of_32(res.ty) <= res.memLen) =>
              res.out = Err("failed to parse object")
        /\ (/\ res.op = "load_slice"
            /\ res.len * size_of_32(res.ty) < U32Limit
            /\ res.base + res.len * size_of_32(res.ty) <= res.memLen) =>
              res.out = Err("failed to parse slice")

C16_Witness ==
    /\ res.op = "load_struct"
    /\ res.ty = "WasmFunc"
    /\ res.base = 1
    /\ res.memLen >= 5
    /\ res.out = Err("failed to parse object")

(***************************************************************************)
(* Properties of the writes                                                *)
(***************************************************************************)
\* the bytes of the first k items of a slice of type T, in order
RECURSIVE ItemBytes(_, _, _)
ItemBytes(T, items, k) ==
    IF k = 0 THEN <<>> ELSE ItemBytes(T, items, k - 1) \o bytes_of(T, items[k])

\* the memory m with the byte string data laid over it from offset base on
Overlay(m, base, data) ==
    [i \in 1..Len(m) |-> IF base < i /\ i <= base + Len(data) THEN data[i - base] ELSE m[i]]

\* the cursor of write_slice after i items
Cursor(base, T, i) == base + i * size_of_32(T)

\* C14: write_slice writes element i at base + i * size_of(T), its cursor advancing
\* by size_of(T) per element, and returns the number of elements; it fails when the
\* cursor would not fit in 32 bits or an element would lie outside the memory.
C14_WriteSlice ==
    [][res'.op = "write_slice" =>
        LET T == res'.ty
            n == Len(res'.items)
        IN  IF \A i \in 1..n : /\ Cursor(res'.base, T, i) <= Len(mem)
                                /\ Cursor(res'.base, T, i) < U32Limit
            THEN /\ res'.out = Ok(n)
                 /\ mem' = Overlay(mem, res'.base, ItemBytes(T, res'.items, n))
                 /\ \A i \in 0..(n - 1) :
                        SubSeq(mem', Cursor(res'.base, T, i) + 1, Cursor(res'.base, T, i + 1))
                            = bytes_of(T, res'.items[i + 1])
            ELSE ~IsOk(res'.out)]_vars

C14_Witness ==
    /\ res.op = "write_slice"
    /\ res.ty = "u16"
    /\ res.base = 3
    /\ res.out = Ok(3)
    /\ SubSeq(mem, 4, 9) = bytes_of("u16", 10) \o bytes_of("u16", 20) \o bytes_of("u16", 30)

\* the meta struct of obj lies inside the memory, aligned: the first load succeeds
MetaLoads(obj) == StructAt(LeGet("LeU32", obj.meta.addr), DynMetaSize)

\* C15 as claimed: run_dtor reads needs_drop and dtor from the vtable reached as
\* get_vtable reaches it, by a load of *obj.meta and a second load through the
\* pointer in it, and fails whenever either of the two loads would fail.
C15_TwoLoads ==
    [][(res'.op = "run_dtor" /\ table' = table /\ VtableIndex(res'.obj) < 0) =>
        ~IsOk(res'.out)]_vars

\* C15 as amended: run_dtor reads needs_drop and dtor from the struct at *obj.meta
\* with one load and does not follow the vtable pointer in it: it fails when that
\* load fails, and otherwise needs_drop = 0 gives success without a lookup and any
\* other needs_drop a lookup of dtor, whether or not the second load of get_vtable
\* would succeed.
C15_SingleLoad ==
    [][(res'.op = "run_dtor" /\ table' = table) =>
        LET meta == LeGet("LeU32", res'.obj.meta.addr)
        IN  IF ~MetaLoads(res'.obj)
            THEN /\ ~IsOk(res'.out)
                 /\ res'.lookups = <<>>
                 /\ guestCalls' = guestCalls
            ELSE IF WordAt(meta + 4) = 0
            THEN /\ res'.out = Ok(<<>>)
                 /\ res'.lookups = <<>>
                 /\ guestCalls' = guestCalls
            ELSE /\ res'.lookups = <<WordAt(meta)>>
                 /\ Resolves(WordAt(meta), FuncTy(DtorArgs, <<>>)) =>
                        DtorCalled(WordAt(meta), res'.obj)]_vars

\* the destructor ran although the vtable pointer leads outside the memory
C15_Witness ==
    /\ res.op = "run_dtor"
    /\ MetaLoads(res.obj)
    /\ VtableIndex(res.obj) < 0
    /\ res.out = Ok(<<>>)
    /\ res.lookups = <<1>>
    /\ Len(guestCalls) = 1
    /\ guestCalls[1].func = "dtor_a"

\* the bytes outside base..base+len are the same before and after the step
OutsideUnchanged(base, len) ==
    /\ Len(mem') = Len(mem)
    /\ \A i \in 1..Len(mem) : (i <= base \/ i > base + len) => mem'[i] = mem[i]

\* C17: a failed write_range_mut or write_struct leaves every byte unchanged; a
\* write_slice that fails at element k (0-based) has written the elements 0..k-1
\* and left every other byte unchanged; a successful write changes only the bytes
\* of its target range.
C17_Frame ==
    [][/\ res'.op \in {"write_range", "write_struct"} =>
            IF IsOk(res'.out)
            THEN OutsideUnchanged(res'.base, res'.len)
            ELSE mem' = mem
       /\ res'.op = "write_slice" =>
            IF IsOk(res'.out)
            THEN OutsideUnchanged(res'.base, Len(res'.items) * size_of_32(res'.ty))
            ELSE \E k \in 0..(Len(res'.items) - 1) :
                    mem' = Overlay(mem, res'.base, ItemBytes(res'.ty, res'.items, k))]_vars

====
